---- MODULE Spec2Model ----
(* Model of streamlit_app.py: the Streamlit script that re-bins the          *)
(* GROUND_TIME histogram summary with a slider and shows the correlation     *)
(* matrix, or one feature's slice of it, selected with a dropdown.           *)
(* Streamlit re-executes the script top to bottom on every interaction; the  *)
(* widget values are the only values carried from one run to the next.       *)
(* bin_edges are fixed-point numbers in tenths, so the literal 0.1 is 1.     *)
EXTENDS Integers, Sequences, FiniteSets, TLC

\* ---------------------------------------------------------------- bounds
MaxBins == 12       \* most rows in histogram_summary_ground_time.csv
MaxObs == 1         \* most observations counted by the histogram summary
MaxFeatures == 2    \* most columns in correlation_matrix.csv

\* ------------------------------------------------------ program constants
SliderMin == 5
SliderMax == 30
SliderDefault == 10
TrailingEdge == 1
FULL == "Full Correlation Matrix"
FeatureNames == <<"DISTANCE", "PASSENGERS", "GROUND_TIME", "AIR_TIME">>
CorrValues == {-1, 1}
NoValue == <<>>

VARIABLES
  DATA,                        \* the CSV files under DATA/
  histogram_summary,           \* line 62
  full_correlation_matrix_df,  \* line 61
  selected_feature,            \* line 107, widget value
  num_bins,                    \* line 155, widget value
  heatmap,                     \* fig_full_heatmap / fig_feature_heatmap
  bin_step,                    \* line 158
  aggregated_bins,             \* line 159
  bin_edges_extended,          \* line 165
  bar_chart,                   \* line 169
  exception                    \* exception that ended the run, or "none"

vars == <<DATA, histogram_summary, full_correlation_matrix_df, selected_feature,
          num_bins, heatmap, bin_step, aggregated_bins, bin_edges_extended,
          bar_chart, exception>>

\* ---------------------------------------------------------------- helpers
max(a, b) == IF a >= b THEN a ELSE b

SetMin(S) == CHOOSE x \in S : \A y \in S : x <= y

RECURSIVE SetSum(_, _)
SetSum(f, S) == IF S = {} THEN 0
                ELSE LET x == CHOOSE y \in S : TRUE
                     IN f[x] + SetSum(f, S \ {x})

\* Python's floor division a // b for b # 0 (TLC's \div wants b > 0)
FloorDiv(a, b) == IF b > 0 THEN a \div b ELSE (0 - a) \div (0 - b)

\* --------------------------------------------------------------- loaders
load_correlation_matrix(data) == data.correlation

load_histogram_summary(data) == data.histogram

\* ---------------------------------------------------- correlation section
all_options(df) == <<FULL>> \o df.columns

\* df[[label]] : the one-column frame, or KeyError for an unknown label
ColumnPos(df, label) == CHOOSE c \in 1..Len(df.columns) : df.columns[c] = label

HasColumn(df, label) == \E c \in 1..Len(df.columns) : df.columns[c] = label

\* df.loc[[position of label]]: the row of df at the label's position
selected_row(df, label) ==
  [index |-> <<label>>, values |-> <<df.values[ColumnPos(df, label)]>>]

\* df[[label]].transpose(): one row labelled label, one column per row of df
selected_correlation(df, label) ==
  [index |-> <<label>>,
   values |-> <<[r \in 1..Len(df.values) |-> df.values[r][ColumnPos(df, label)]]>>]

\* lines 110-144
correlation_section(df, sel) ==
  IF sel = FULL
  THEN [raised |-> "none",
        fig |-> [title |-> "Full Feature Correlation Matrix",
                 z |-> df.values, x |-> df.columns, y |-> df.columns]]
  ELSE IF ~HasColumn(df, sel)
  THEN [raised |-> "KeyError", fig |-> NoValue]
  ELSE [raised |-> "none",
        fig |-> [title |-> "Correlation Heatmap for feature",
                 z |-> selected_correlation(df, sel).values,
                 x |-> df.columns, y |-> <<sel>>]]

\* ------------------------------------------------------ histogram section
\* line 158 with the quotient rounded up instead of down
bin_step_up(n, k) == max(1, 0 - FloorDiv(0 - n, k))

\* line 158 with 1 added to the quotient instead of max(1, ...)
bin_step_plus_one(n, k) == 1 + FloorDiv(n, k)

\* line 158
bin_step_of(n, k) == max(1, FloorDiv(n, k))

\* the group key of a row when the row labels are counted from 1
group_key_from_one(i, step) == (i + 1) \div step

\* index // bin_step for the row labelled i
group_key(i, step) == i \div step

\* histogram_summary.index // bin_step : the group key of every row, the
\* rows being labelled 0..n-1
group_keys(hist, step) == [r \in 1..Len(hist) |-> group_key(r - 1, step)]

\* the rows of one group
group_rows(by, key) == {r \in 1..Len(by) : by[r] = key}

\* groupby sorts the group keys: the keys present, in ascending order
\* (a key is never larger than the last row label)
sorted_keys(by) ==
  SelectSeq([c \in 1..Len(by) |-> c - 1],
            LAMBDA c : \E r \in 1..Len(by) : by[r] = c)

\* 'bin_edges': 'max'
agg_max(hist, rows) ==
  CHOOSE x \in {hist[i].bin_edges : i \in rows} :
    \A i \in rows : hist[i].bin_edges <= x

\* line 160
agg_min(hist, rows) == SetMin({hist[i].bin_edges : i \in rows})

\* 'frequency': 'first'
agg_first(hist, rows) == hist[SetMin(rows)].frequency

\* line 161
agg_sum(hist, rows) == SetSum([i \in rows |-> hist[i].frequency], rows)

\* the row of aggregated_bins for one group
agg_row(hist, rows) ==
  [bin_edges |-> agg_min(hist, rows), frequency |-> agg_sum(hist, rows)]

\* lines 159-162
groupby_agg(hist, step) ==
  LET by == group_keys(hist, step)
      keys == sorted_keys(by)
  IN [j \in 1..Len(keys) |-> agg_row(hist, group_rows(by, keys[j]))]

\* lines 158-162 for any integer bin count
rebin(hist, k) ==
  IF k = 0
  THEN [raised |-> "ZeroDivisionError", step |-> NoValue, bins |-> NoValue]
  ELSE [raised |-> "none", step |-> bin_step_of(Len(hist), k),
        bins |-> groupby_agg(hist, bin_step_of(Len(hist), k))]

\* line 165
extend_edges(agg) ==
  [i \in 1..(Len(agg) + 1) |->
     IF i <= Len(agg) THEN agg[i].bin_edges
     ELSE agg[Len(agg)].bin_edges + TrailingEdge]

\* np.diff
diff(s) == [i \in 1..(Len(s) - 1) |-> s[i + 1] - s[i]]

\* line 169
bar(agg, edges) ==
  [x |-> [i \in 1..Len(agg) |-> agg[i].bin_edges],
   height |-> [i \in 1..Len(agg) |-> agg[i].frequency],
   width |-> diff(edges)]

\* ------------------------------------------------------------- the script
\* One execution of the script (lines 60-173) on the files data with the
\* widget values sel and k: every name the run binds, and how it ended.
run(data, sel, k) ==
  LET df == load_correlation_matrix(data)
      hist == load_histogram_summary(data)
      corr == correlation_section(df, sel)
      rb == rebin(hist, k)
      base == [full_correlation_matrix_df |-> df, histogram_summary |-> hist,
               heatmap |-> corr.fig, bin_step |-> NoValue,
               aggregated_bins |-> NoValue, bin_edges_extended |-> NoValue,
               bar_chart |-> NoValue, exception |-> "none"]
  IN IF corr.raised # "none"
     THEN [base EXCEPT !.exception = corr.raised]
     ELSE IF rb.raised # "none"
     THEN [base EXCEPT !.exception = rb.raised]
     ELSE IF Len(rb.bins) = 0
     THEN \* line 165: .iloc[-1] of an empty Series
          [base EXCEPT !.bin_step = rb.step, !.aggregated_bins = rb.bins,
                       !.exception = "IndexError"]
     ELSE [base EXCEPT !.bin_step = rb.step, !.aggregated_bins = rb.bins,
                       !.bin_edges_extended = extend_edges(rb.bins),
                       !.bar_chart = bar(rb.bins, extend_edges(rb.bins))]

\* the script with line 159 assigning to histogram_summary, kept between runs
Script_in_place(sel, k) ==
  \E r \in {run([DATA EXCEPT !.histogram = histogram_summary], sel, k)} :
     /\ DATA' = DATA
     /\ selected_feature' = sel
     /\ num_bins' = k
     /\ full_correlation_matrix_df' = r.full_correlation_matrix_df
     /\ histogram_summary' = r.aggregated_bins
     /\ heatmap' = r.heatmap
     /\ bin_step' = r.bin_step
     /\ aggregated_bins' = r.aggregated_bins
     /\ bin_edges_extended' = r.bin_edges_extended
     /\ bar_chart' = r.bar_chart
     /\ exception' = r.exception

Script(sel, k) ==
  \E r \in {run(DATA, sel, k)} :
     /\ DATA' = DATA
     /\ selected_feature' = sel
     /\ num_bins' = k
     /\ full_correlation_matrix_df' = r.full_correlation_matrix_df
     /\ histogram_summary' = r.histogram_summary
     /\ heatmap' = r.heatmap
     /\ bin_step' = r.bin_step
     /\ aggregated_bins' = r.aggregated_bins
     /\ bin_edges_extended' = r.bin_edges_extended
     /\ bar_chart' = r.bar_chart
     /\ exception' = r.exception

\* -------------------------------------------------------------- the files
\* A histogram summary: n bins with ascending edges half a unit apart,
\* counting the observations obs (obs[j] is the bin of observation j, 0 for
\* an observation outside every bin).
Histogram(n, obs) ==
  [i \in 1..n |->
     [bin_edges |-> (i - 1) * 5,
      frequency |-> Cardinality({j \in DOMAIN obs : obs[j] = i})]]

HistogramFiles ==
  UNION {{Histogram(n, obs) : obs \in [1..MaxObs -> 0..n]} : n \in 0..MaxBins}

\* A square table with one column per feature name; a feature's correlation
\* with itself is 1.
MatrixFiles ==
  UNION {{[columns |-> SubSeq(FeatureNames, 1, N), values |-> v]
          : v \in {m \in [1..N -> [1..N -> CorrValues]] :
                     \A c \in 1..N : m[c][c] = 1}}
         : N \in 1..MaxFeatures}

SampleHistogram == Histogram(SliderMin, [j \in 1..MaxObs |-> j])

SampleMatrix == [columns |-> SubSeq(FeatureNames, 1, 1), values |-> <<<<1>>>>]

\* The two sections read different files, so the files vary one at a time.
Datasets ==
  {[histogram |-> h, correlation |-> SampleMatrix] : h \in HistogramFiles}
  \cup {[histogram |-> SampleHistogram, correlation |-> m] : m \in MatrixFiles}

\* ------------------------------------------------------------ the session
\* The first run of a session: every widget has its default value.
Init ==
  \E data \in Datasets :
    \E r \in {run(data, FULL, SliderDefault)} :
       /\ DATA = data
       /\ selected_feature = FULL
       /\ num_bins = SliderDefault
       /\ full_correlation_matrix_df = r.full_correlation_matrix_df
       /\ histogram_summary = r.histogram_summary
       /\ heatmap = r.heatmap
       /\ bin_step = r.bin_step
       /\ aggregated_bins = r.aggregated_bins
       /\ bin_edges_extended = r.bin_edges_extended
       /\ bar_chart = r.bar_chart
       /\ exception = r.exception

\* line 155: the slider is moved to k and the script runs again
MoveSlider ==
  \E k \in SliderMin..SliderMax :
    /\ k # num_bins
    /\ Script(selected_feature, k)

\* line 107: another option is picked and the script runs again
SelectFeature ==
  \E c \in 1..Len(all_options(full_correlation_matrix_df)) :
    /\ all_options(full_correlation_matrix_df)[c] # selected_feature
    /\ Script(all_options(full_correlation_matrix_df)[c], num_bins)

\* any other widget (colormap, filters) changes and the script runs again
Rerun == Script(selected_feature, num_bins)

Next == MoveSlider \/ SelectFeature \/ Rerun

Spec == Init /\ [][Next]_vars

\* ------------------------------------------------------------- properties
CeilDiv(a, b) == (a + b - 1) \div b

Abs(a) == IF a >= 0 THEN a ELSE 0 - a

RECURSIVE TotalFrequency(_)
TotalFrequency(bins) ==
  IF Len(bins) = 0 THEN 0
  ELSE bins[Len(bins)].frequency + TotalFrequency(SubSeq(bins, 1, Len(bins) - 1))

\* the run got past lines 158-162
Rebinned == exception \in {"none", "IndexError"}

NumBinsInRange == num_bins \in SliderMin..SliderMax

\* the step the claims name, and the source rows of output bin i (from 0)
ClaimedStep == max(1, Len(histogram_summary) \div num_bins)

ClaimedFirst(i, step) == i * step + 1

ClaimedLast(i, step) ==
  IF (i + 1) * step <= Len(histogram_summary) THEN (i + 1) * step
  ELSE Len(histogram_summary)

RECURSIVE RangeFrequency(_, _, _)
RangeFrequency(bins, lo, hi) ==
  IF lo > hi THEN 0 ELSE bins[lo].frequency + RangeFrequency(bins, lo + 1, hi)

\* C1: Conservation - for every bin count in 5..30 the frequencies of the
\* re-binned histogram add up to the frequencies of the source bins.
C1_Conservation ==
  Rebinned =>
    /\ NumBinsInRange
    /\ TotalFrequency(aggregated_bins) = TotalFrequency(histogram_summary)

\* an observation outside the first source bin of its group is kept
C1_Witness ==
  /\ exception = "none"
  /\ bin_step >= 2
  /\ histogram_summary[2].frequency > 0
  /\ aggregated_bins[1].frequency > 0

\* the example of the grouping rule, edges in tenths
ExampleBins ==
  <<[bin_edges |-> 0, frequency |-> 5], [bin_edges |-> 5, frequency |-> 10],
    [bin_edges |-> 10, frequency |-> 7], [bin_edges |-> 15, frequency |-> 3]>>

ExampleOutput ==
  <<[bin_edges |-> 0, frequency |-> 15], [bin_edges |-> 10, frequency |-> 10]>>

\* C2: Grouping - with step = max(1, floor(n/k)) output bin i covers the
\* source bins i*step .. min((i+1)*step, n)-1, only the last group may be
\* shorter, its left edge is that of the group's first source bin and its
\* frequency the sum of the group's frequencies.
C2_Grouping ==
  /\ groupby_agg(ExampleBins, 2) = ExampleOutput
  /\ Rebinned =>
       /\ bin_step = ClaimedStep
       /\ (Len(aggregated_bins) - 1) * bin_step < Len(histogram_summary)
          \/ Len(histogram_summary) = 0
       /\ Len(aggregated_bins) * bin_step >= Len(histogram_summary)
       /\ \A i \in 0..(Len(aggregated_bins) - 1) :
            /\ ClaimedFirst(i, bin_step) <= ClaimedLast(i, bin_step)
            /\ aggregated_bins[i + 1].bin_edges =
                 histogram_summary[ClaimedFirst(i, bin_step)].bin_edges
            /\ aggregated_bins[i + 1].frequency =
                 RangeFrequency(histogram_summary, ClaimedFirst(i, bin_step),
                                ClaimedLast(i, bin_step))

\* step 2 with a shorter last group and observations in the histogram
C2_Witness ==
  /\ exception = "none"
  /\ bin_step = 2
  /\ Len(histogram_summary) % 2 = 1
  /\ histogram_summary[Len(histogram_summary)].frequency > 0
  /\ aggregated_bins[Len(aggregated_bins)].frequency > 0

\* C3: Group-count bound - the number of bins produced is
\* ceil(n / max(1, floor(n/k))) for a summary of n bins and k in 5..30.
C3_GroupCount ==
  Rebinned =>
    /\ NumBinsInRange
    /\ Len(aggregated_bins) =
         CeilDiv(Len(histogram_summary),
                 max(1, Len(histogram_summary) \div num_bins))

\* an odd number of source bins folded two by two
C3_Witness ==
  /\ exception = "none"
  /\ Len(histogram_summary) = 2 * num_bins + 1
  /\ bin_step = 2
  /\ Len(aggregated_bins) = num_bins + 1

\* C4: Identity at saturation - when the bin count is at least the number
\* of source bins, step is 1 and the output equals the source bins.
C4_Identity ==
  (Rebinned /\ num_bins >= Len(histogram_summary)) =>
    /\ bin_step = 1
    /\ aggregated_bins = histogram_summary

C4_Witness ==
  /\ exception = "none"
  /\ num_bins = Len(histogram_summary)
  /\ TotalFrequency(histogram_summary) > 0
  /\ aggregated_bins = histogram_summary

\* C5: Empty input - an empty histogram summary gives an empty output and
\* no exception; the trailing-edge step is skipped.
C5_EmptyInput ==
  Len(histogram_summary) = 0 =>
    /\ exception = "none"
    /\ Len(aggregated_bins) = 0

\* the position of the selected feature among the matrix's columns
SelectedPos == ColumnPos(full_correlation_matrix_df, selected_feature)

FeatureView ==
  /\ selected_feature # FULL
  /\ exception \in {"none", "IndexError"}

\* a 1xN view labelled by the feature, over the matrix's columns in order
OneRowView ==
  /\ Len(heatmap.z) = 1
  /\ heatmap.y = <<selected_feature>>
  /\ heatmap.x = full_correlation_matrix_df.columns
  /\ Len(heatmap.z[1]) = Len(full_correlation_matrix_df.columns)

\* C6 as claimed: the feature view for X holds, under column C, the
\* matrix's entry in row X, column C.
C6_SliceRow ==
  FeatureView =>
    /\ OneRowView
    /\ \A c \in 1..Len(full_correlation_matrix_df.columns) :
         heatmap.z[1][c] = full_correlation_matrix_df.values[SelectedPos][c]

\* C6: Slice correctness for a feature - the feature view for X is a 1xN
\* table with one row labelled X over the matrix's columns in their order,
\* and its value under column C is the matrix's entry in row C, column X.
C6_SliceColumn ==
  FeatureView =>
    /\ OneRowView
    /\ \A c \in 1..Len(full_correlation_matrix_df.columns) :
         heatmap.z[1][c] = full_correlation_matrix_df.values[c][SelectedPos]

\* a feature is selected in a matrix that is not symmetric
C6_Witness ==
  /\ FeatureView
  /\ \E r, c \in 1..Len(full_correlation_matrix_df.columns) :
       full_correlation_matrix_df.values[r][c]
         # full_correlation_matrix_df.values[c][r]

UnknownLabels == {"nonexistent", "full correlation matrix", ""}

\* C7: Unknown label - a selection that is neither the sentinel nor one of
\* the matrix's labels fails with a NotFound kind, as a typed failure and
\* not as a fault, and no view is produced.
C7_UnknownLabel ==
  \A label \in UnknownLabels :
    /\ correlation_section(full_correlation_matrix_df, label).raised = "none"
    /\ correlation_section(full_correlation_matrix_df, label).fig
         = [error |-> "NotFound"]

OutOfRangeBinCounts == {0 - 3, 0, SliderMin - 1, SliderMax + 1}

\* C8: Range validation - a bin count outside 5..30 is rejected at the
\* boundary of the re-binning step with an InvalidArgument kind and no
\* aggregated bins are produced for it.
C8_RangeValidation ==
  \A k \in OutOfRangeBinCounts :
    /\ rebin(histogram_summary, k).raised = "InvalidArgument"
    /\ rebin(histogram_summary, k).bins = NoValue

\* C9 as claimed: no group size gives a number of bins strictly nearer to
\* the bin count than the number of bins produced.
C9_Closest ==
  Rebinned =>
    \A s \in 1..(Len(histogram_summary) + 1) :
      Abs(CeilDiv(Len(histogram_summary), s) - num_bins)
        >= Abs(Len(aggregated_bins) - num_bins)

\* C9: Closest achievable bin count, among the group sizes that leave at
\* least K full groups - no group size s >= 1 with s*K <= n gives a number
\* of bins strictly nearer to K than the number produced, and when n < K
\* every source bin is kept.
C9_ClosestFullGroups ==
  Rebinned =>
    /\ NumBinsInRange
    /\ \A s \in 1..(Len(histogram_summary) + 1) :
         s * num_bins <= Len(histogram_summary) =>
           Abs(CeilDiv(Len(histogram_summary), s) - num_bins)
             >= Abs(Len(aggregated_bins) - num_bins)
    /\ Len(histogram_summary) < num_bins =>
         Len(aggregated_bins) = Len(histogram_summary)

\* more than one group size leaves K full groups
C9_Witness ==
  /\ exception = "none"
  /\ 2 * num_bins <= Len(histogram_summary)
  /\ Len(aggregated_bins) < Len(histogram_summary)

\* what a run shows
Outputs(h, step, agg, edges, chart, exc) == <<h, step, agg, edges, chart, exc>>

\* what the last run showed is what a first run on the same files with the
\* same widget values shows
AsFirstRun ==
  \E r \in {run(DATA, selected_feature, num_bins)} :
    Outputs(heatmap, bin_step, aggregated_bins, bin_edges_extended,
            bar_chart, exception)
      = Outputs(r.heatmap, r.bin_step, r.aggregated_bins,
                r.bin_edges_extended, r.bar_chart, r.exception)

TablesKept ==
  /\ histogram_summary' = histogram_summary
  /\ full_correlation_matrix_df' = full_correlation_matrix_df

SameValuesSameResult ==
  (selected_feature' = selected_feature /\ num_bins' = num_bins) =>
    Outputs(heatmap', bin_step', aggregated_bins', bin_edges_extended',
            bar_chart', exception')
      = Outputs(heatmap, bin_step, aggregated_bins, bin_edges_extended,
                bar_chart, exception)

====
